---- MODULE Spec2Model ----
(***************************************************************************)
(* Model of homework.py: the poll loop of main() with get_api_answer,      *)
(* check_response, parse_status and send_message.                          *)
(*                                                                         *)
(* Texts are sequences of string tokens, so that an f-string is the        *)
(* concatenation of its literal parts and its interpolated values.  The    *)
(* Russian literals of the source are written in ASCII.                    *)
(* A JSON value is a record of flags and fields: isinstance() and `in`     *)
(* tests of the source read the flags.                                     *)
(*                                                                         *)
(* main() is modelled from its call, with the names imported at lines      *)
(* 11-14 taken as bound: exceptions.py as given defines                    *)
(* MissingEnvironmentVariableError but no InvalidResponseCodeError.        *)
(***************************************************************************)
EXTENDS Integers, Sequences, FiniteSets, TLC

VARIABLES
    PRACTICUM_TOKEN,    \* os.getenv('PRACTICUM_TOKEN')
    TELEGRAM_TOKEN,     \* os.getenv('TELEGRAM_TOKEN')
    TELEGRAM_CHAT_ID,   \* os.getenv('TELEGRAM_CHAT_ID')
    pc,                 \* position of main()
    current_timestamp,  \* main(): the cursor
    last_message,       \* main(): text of the last delivered notification
    response,           \* main(): value returned by get_api_answer
    homeworks,          \* main(): value returned by check_response
    message,            \* main(): verdict or diagnostic of this cycle
    error,              \* the exception bound by `except Exception as error`
    propagating,        \* an exception is leaving the except block
    cycle,              \* history: number of cycles started
    start_timestamp,    \* history: current_timestamp when the cycle started
    start_message,      \* history: last_message when the cycle started
    raisedBy,           \* history: the call of the try block that raised
    verdict,            \* history: text returned by parse_status this cycle
    sends,              \* history: send_message calls of this cycle
    slept,              \* history: seconds slept since the last get_api_answer
    confirmed,          \* history: last_message is '' or a delivered text
    prev                \* history: summary of the previous cycle

vars == <<PRACTICUM_TOKEN, TELEGRAM_TOKEN, TELEGRAM_CHAT_ID, pc,
          current_timestamp, last_message, response, homeworks, message,
          error, propagating, cycle, start_timestamp, start_message,
          raisedBy, verdict, sends, slept, confirmed, prev>>

(***************************************************************************)
(* Bounds of the model.                                                    *)
(***************************************************************************)
MaxCycles == 3
MaxItems == 2

(***************************************************************************)
(* Program constants.                                                      *)
(***************************************************************************)
RETRY_PERIOD == 600
HTTP_OK == 200

\* Python's None for an environment variable that is not set.
NoneValue == "<None>"
TokenValues == {NoneValue, "", "token"}

\* token is None: an empty value passes.
Falsy_NoneOnly(token) == token = NoneValue

\* not token
Falsy(token) == token = NoneValue \/ token = ""

\* HOMEWORK_VERDICTS: the recognised statuses and their phrases.
HOMEWORK_VERDICTS ==
    [approved |-> "Work checked: the reviewer liked everything. Hurray!",
     reviewing |-> "Work taken for review by the reviewer.",
     rejected |-> "Work checked: the reviewer has remarks."]

(***************************************************************************)
(* Exceptions and results of calls.                                        *)
(***************************************************************************)
\* The classes exceptions.py defines.
ExceptionsModule ==
    {"MissingEnvironmentVariableError", "APIRequestError",
     "UnknownHomeworkStatusError", "TelegramSendMessageError"}

\* The names homework.py imports from exceptions.
ImportedExceptions ==
    {"InvalidResponseCodeError", "MissingEnvironmentVariableError"}

NoError == [type |-> "None", text |-> <<>>]
Exc(type, text) == [type |-> type, text |-> text]

\* str(error): KeyError shows the repr of its argument, the others the text.
Str(exc) ==
    IF exc.type = "KeyError" THEN <<"'">> \o exc.text \o <<"'">>
    ELSE exc.text

Raise(type, text, none) == [exc |-> Exc(type, text), ret |-> none]
Return(value) == [exc |-> NoError, ret |-> value]

(***************************************************************************)
(* JSON values the API can answer with.                                    *)
(***************************************************************************)
Names == {"hw1"}
Statuses == {"approved", "rejected", "weird"}
Dates == {1000, 2000}
StartTimes == {100}

\* One element of "homeworks": a dict with optional keys, or a number.
Item(isDict, hasStatus, status, hasName, name) ==
    [isDict |-> isDict, hasStatus |-> hasStatus, status |-> status,
     hasName |-> hasName, homework_name |-> name]

Items ==
    {Item(TRUE, TRUE, s, TRUE, n) : s \in Statuses, n \in Names}
    \cup {Item(TRUE, FALSE, "", TRUE, n) : n \in Names}
    \cup {Item(TRUE, TRUE, s, FALSE, "") : s \in {"approved", "weird"}}
    \cup {Item(FALSE, FALSE, "", FALSE, "")}

\* The elements after the first one.
TailItems == {Item(TRUE, TRUE, "weird", TRUE, "hw0"),
              Item(FALSE, FALSE, "", FALSE, "")}

Tails == UNION {[1..n -> TailItems] : n \in 0..(MaxItems - 1)}

ItemLists == {<<>>} \cup {<<i>> \o t : i \in Items, t \in Tails}

Json(isDict, hasHomeworks, isList, list, hasDate, date) ==
    [isDict |-> isDict, hasHomeworks |-> hasHomeworks,
     homeworksIsList |-> isList, homeworks |-> list,
     hasDate |-> hasDate, current_date |-> date]

NoResponse == Json(FALSE, FALSE, FALSE, <<>>, FALSE, 0)

Responses ==
    {Json(FALSE, FALSE, FALSE, <<>>, FALSE, 0)}
    \cup {Json(TRUE, FALSE, FALSE, <<>>, FALSE, 0)}
    \cup {Json(TRUE, TRUE, FALSE, <<>>, FALSE, 0)}
    \cup {Json(TRUE, TRUE, TRUE, l, FALSE, 0) : l \in ItemLists}
    \cup {Json(TRUE, TRUE, TRUE, l, TRUE, d) : l \in ItemLists, d \in Dates}

(***************************************************************************)
(* What requests.get can do: fail in transport, or answer.                 *)
(***************************************************************************)
Http(failed, err, code, reason, text, isJson, json) ==
    [failed |-> failed, error |-> err, status_code |-> code,
     reason |-> reason, text |-> text, isJson |-> isJson, json |-> json]

HttpOutcomes ==
    {Http(TRUE, "timed out", 0, "", "", FALSE, NoResponse)}
    \cup {Http(FALSE, "", 500, "Internal Server Error", "oops", FALSE,
               NoResponse)}
    \cup {Http(FALSE, "", HTTP_OK, "OK", "<html>", FALSE, NoResponse)}
    \cup {Http(FALSE, "", HTTP_OK, "OK", "{..}", TRUE, j) : j \in Responses}

\* What bot.send_message can do: deliver, raise apihelper.ApiException, or
\* raise another exception (requests' ConnectionError, ReadTimeout, ...).
BotOutcomes == {"delivered", "ApiException", "ConnectionError"}

(***************************************************************************)
(* check_tokens(): the names of the missing tokens; it raises              *)
(* MissingEnvironmentVariableError when there are any.                     *)
(***************************************************************************)
check_tokens(practicum, telegram, chat) ==
    LET missing_tokens ==
            (IF Falsy(practicum) THEN <<"PRACTICUM_TOKEN">> ELSE <<>>)
            \o (IF Falsy(telegram) THEN <<"TELEGRAM_TOKEN">> ELSE <<>>)
            \o (IF Falsy(chat) THEN <<"TELEGRAM_CHAT_ID">> ELSE <<>>)
    IN  IF missing_tokens # <<>>
        THEN Raise("MissingEnvironmentVariableError",
                   <<"Missing environment variables: ">> \o missing_tokens,
                   FALSE)
        ELSE Return(TRUE)

(***************************************************************************)
(* get_api_answer(timestamp), given what requests.get does.                *)
(***************************************************************************)
get_api_answer(timestamp, http) ==
    IF http.failed
    THEN Raise("ConnectionError",
               <<"API request failed: URL=ENDPOINT, Headers=HEADERS, Params=",
                 ToString(timestamp), ", Error: ", http.error>>,
               NoResponse)
    ELSE IF http.status_code # HTTP_OK
    THEN Raise("InvalidResponseCodeError",
               <<"API returned a code other than 200: Code=",
                 ToString(http.status_code), ", Reason=", http.reason,
                 ", Text=", http.text>>,
               NoResponse)
    ELSE IF ~http.isJson
    THEN Raise("JSONDecodeError", <<"Expecting value">>, NoResponse)
    ELSE Return(http.json)

\* check_response that takes an empty list for a malformed answer.
check_response_EmptyRaises(resp) ==
    IF ~resp.isDict
    THEN Raise("TypeError", <<"API response must be a dict.">>, <<>>)
    ELSE IF ~resp.hasHomeworks \/ resp.homeworks = <<>>
    THEN Raise("KeyError", <<"API response has no key homeworks.">>, <<>>)
    ELSE IF ~resp.homeworksIsList
    THEN Raise("TypeError", <<"Value of key homeworks must be a list.">>,
               <<>>)
    ELSE Return(resp.homeworks)

(***************************************************************************)
(* check_response(response)                                                *)
(***************************************************************************)
check_response(resp) ==
    IF ~resp.isDict
    THEN Raise("TypeError", <<"API response must be a dict.">>, <<>>)
    ELSE IF ~resp.hasHomeworks
    THEN Raise("KeyError", <<"API response has no key homeworks.">>, <<>>)
    ELSE IF ~resp.homeworksIsList
    THEN Raise("TypeError", <<"Value of key homeworks must be a list.">>,
               <<>>)
    ELSE Return(resp.homeworks)

\* parse_status that reads the name with .get() and never misses it.
parse_status_NoNameCheck(homework) ==
    IF ~homework.isDict
    THEN Raise("TypeError", <<"argument of type 'int' is not iterable">>,
               <<>>)
    ELSE IF ~homework.hasStatus
    THEN Raise("KeyError", <<"Homework has no key status.">>, <<>>)
    ELSE IF homework.status \notin DOMAIN HOMEWORK_VERDICTS
    THEN Raise("ValueError",
               <<"Unknown homework status: ", homework.status>>, <<>>)
    ELSE Return(<<"Homework status changed: ", homework.homework_name,
                  ". ", HOMEWORK_VERDICTS[homework.status]>>)

\* parse_status that shows an unknown status as it is instead of raising.
parse_status_NoStatusCheck(homework) ==
    IF ~homework.isDict
    THEN Raise("TypeError", <<"argument of type 'int' is not iterable">>,
               <<>>)
    ELSE IF ~homework.hasStatus
    THEN Raise("KeyError", <<"Homework has no key status.">>, <<>>)
    ELSE IF ~homework.hasName
    THEN Raise("KeyError", <<"Homework has no key homework_name.">>, <<>>)
    ELSE Return(<<"Homework status changed: ", homework.homework_name,
                  ". ",
                  IF homework.status \in DOMAIN HOMEWORK_VERDICTS
                  THEN HOMEWORK_VERDICTS[homework.status]
                  ELSE homework.status>>)

(***************************************************************************)
(* parse_status(homework)                                                  *)
(***************************************************************************)
parse_status(homework) ==
    IF ~homework.isDict
    THEN Raise("TypeError", <<"argument of type 'int' is not iterable">>,
               <<>>)
    ELSE IF ~homework.hasStatus
    THEN Raise("KeyError", <<"Homework has no key status.">>, <<>>)
    ELSE IF ~homework.hasName
    THEN Raise("KeyError", <<"Homework has no key homework_name.">>, <<>>)
    ELSE IF homework.status \notin DOMAIN HOMEWORK_VERDICTS
    THEN Raise("ValueError",
               <<"Unknown homework status: ", homework.status>>, <<>>)
    ELSE Return(<<"Homework status changed: ", homework.homework_name,
                  ". ", HOMEWORK_VERDICTS[homework.status]>>)

(***************************************************************************)
(* send_message(bot, message), given what bot.send_message does: True,     *)
(* False, or the exception that leaves the function.                       *)
(***************************************************************************)
send_message(outcome) ==
    IF outcome = "delivered" THEN "True"
    ELSE IF outcome = "ApiException" THEN "False"
    ELSE "raise"

\* response.get('current_date') with no default: None, written 0, if absent.
response_get_NoDefault(resp, default) ==
    IF resp.hasDate THEN resp.current_date ELSE 0

\* response.get('current_date', default)
response_get_current_date(resp, default) ==
    IF resp.hasDate THEN resp.current_date ELSE default

\* The comparison left out.
differs_Always(msg, last) == TRUE

\* message != last_message, lines 176 and 186
differs(msg, last) == msg # last

\* last_message assigned whenever send_message returned, True or False.
assigned_IgnoringResult(sent, msg, last) ==
    IF sent # "raise" THEN msg ELSE last

\* A slot for verdicts only: a delivered diagnostic is not remembered.
assigned_VerdictsOnly(sent, msg, last) ==
    IF sent = "True" /\ Head(msg) # "Program failure: " THEN msg ELSE last

\* Lines 176-177 and 186-187: last_message after the if statement, given
\* what send_message did.
assigned_last_message(sent, msg, last) ==
    IF sent = "True" THEN msg ELSE last

\* The sleep at the end of the loop body instead of in a finally clause.
leave_except_NoFinally(raising) ==
    IF raising THEN "raised" ELSE "finally"

\* Line 189: the finally clause runs however the except block is left.
leave_except(raising) == "finally"

\* f'... {error}' of line 184
Diagnostic(exc) == <<"Program failure: ">> \o Str(exc)

\* The exception a failing bot.send_message lets through.
SendError == Exc("ConnectionError", <<"Telegram is unreachable">>)

\* One call of send_message: its text, last_message at the call, its result.
Call(text, last, result) == [text |-> text, last |-> last, result |-> result]

NoCycle == [verdict |-> <<>>, sends |-> <<>>]

\* homeworks[-1]: the oldest item instead of the newest.
last_item(list) == list[Len(list)]

\* Line 174: homeworks[0]
first_item(list) == list[1]

\* The end of a cycle: the calls made, last_message and the cursor.
Outcome(calls, last, timestamp) ==
    [sends |-> calls, last_message |-> last, current_timestamp |-> timestamp]

\* Lines 183-187 as a function: the handler for exc after the calls made,
\* where sent is what send_message does if it is called.
handle_exception(exc, last, timestamp, calls, sent) ==
    LET text == Diagnostic(exc)
    IN  IF ~differs(text, last)
        THEN Outcome(calls, last, timestamp)
        ELSE Outcome(Append(calls, Call(text, last, sent)),
                     assigned_last_message(sent, text, last), timestamp)

\* Lines 170-187 as a function of the response, of last_message and the
\* cursor at the start, and of what the first and the second call of
\* send_message do.
main_cycle(resp, last, timestamp, sent1, sent2) ==
    LET checked == check_response(resp)
    IN  IF checked.exc # NoError
        THEN handle_exception(checked.exc, last, timestamp, <<>>, sent1)
        ELSE IF checked.ret = <<>>
        THEN Outcome(<<>>, last, timestamp)
        ELSE LET parsed == parse_status(first_item(checked.ret))
             IN  IF parsed.exc # NoError
                 THEN handle_exception(parsed.exc, last, timestamp, <<>>,
                                       sent1)
                 ELSE IF ~differs(parsed.ret, last)
                 THEN Outcome(<<>>, last, timestamp)
                 ELSE IF sent1 = "raise"
                 THEN handle_exception(
                          SendError, last, timestamp,
                          <<Call(parsed.ret, last, sent1)>>, sent2)
                 ELSE Outcome(
                          <<Call(parsed.ret, last, sent1)>>,
                          assigned_last_message(sent1, parsed.ret, last),
                          IF sent1 = "True"
                          THEN response_get_current_date(resp, timestamp)
                          ELSE timestamp)

(***************************************************************************)
(* Initial state: the module is loaded, main() has not started.            *)
(***************************************************************************)
Init ==
    /\ PRACTICUM_TOKEN \in TokenValues
    /\ TELEGRAM_TOKEN \in TokenValues
    /\ TELEGRAM_CHAT_ID \in TokenValues
    /\ pc = "main"
    /\ current_timestamp = 0
    /\ last_message = <<>>
    /\ response = NoResponse
    /\ homeworks = <<>>
    /\ message = <<>>
    /\ error = NoError
    /\ propagating = FALSE
    /\ cycle = 0
    /\ start_timestamp = 0
    /\ start_message = <<>>
    /\ raisedBy = "none"
    /\ verdict = <<>>
    /\ sends = <<>>
    /\ slept = 0
    /\ confirmed = TRUE
    /\ prev = NoCycle

tokens == <<PRACTICUM_TOKEN, TELEGRAM_TOKEN, TELEGRAM_CHAT_ID>>
locals == <<response, homeworks, message, error, propagating>>
history == <<cycle, start_timestamp, start_message, raisedBy, verdict, sends,
             slept, confirmed, prev>>

(***************************************************************************)
(* main(), lines 158-165: check_tokens, sys.exit(1) or the loop's state.   *)
(***************************************************************************)
Start ==
    /\ pc = "main"
    /\ LET r == check_tokens(PRACTICUM_TOKEN, TELEGRAM_TOKEN,
                             TELEGRAM_CHAT_ID)
       IN  IF r.exc # NoError
           THEN /\ pc' = "sys.exit(1)"
                /\ UNCHANGED <<current_timestamp, last_message>>
           ELSE /\ pc' = "get_api_answer"
                /\ current_timestamp' \in StartTimes
                /\ last_message' = <<>>
    /\ UNCHANGED <<tokens, locals, history>>

(***************************************************************************)
(* Line 169: response = get_api_answer(current_timestamp)                  *)
(***************************************************************************)
GetApiAnswer ==
    /\ pc = "get_api_answer"
    /\ cycle < MaxCycles
    /\ \E http \in HttpOutcomes :
         LET r == get_api_answer(current_timestamp, http)
         IN  IF r.exc # NoError
             THEN /\ pc' = "except"
                  /\ error' = r.exc
                  /\ raisedBy' = "get_api_answer"
                  /\ UNCHANGED response
             ELSE /\ pc' = "check_response"
                  /\ response' = r.ret
                  /\ raisedBy' = "none"
                  /\ UNCHANGED error
    /\ cycle' = cycle + 1
    /\ start_timestamp' = current_timestamp
    /\ start_message' = last_message
    /\ verdict' = <<>>
    /\ sends' = <<>>
    /\ slept' = 0
    /\ UNCHANGED <<tokens, current_timestamp, last_message, homeworks,
                   message, propagating, confirmed, prev>>

\* The cursor taken from the response as soon as it is validated, before the
\* item list is looked at.
CheckResponse_AdvanceOnEmpty ==
    /\ pc = "check_response"
    /\ LET r == check_response(response)
       IN  IF r.exc # NoError
           THEN /\ pc' = "except"
                /\ error' = r.exc
                /\ raisedBy' = "check_response"
                /\ UNCHANGED <<homeworks, current_timestamp>>
           ELSE /\ homeworks' = r.ret
                /\ pc' = IF r.ret = <<>> THEN "finally" ELSE "parse_status"
                /\ current_timestamp' =
                     IF r.ret = <<>>
                     THEN response_get_current_date(response,
                                                    current_timestamp)
                     ELSE current_timestamp
                /\ UNCHANGED <<error, raisedBy>>
    /\ UNCHANGED <<tokens, last_message, response,
                   message, propagating, cycle, start_timestamp,
                   start_message, verdict, sends, slept, confirmed, prev>>

(***************************************************************************)
(* Lines 170-172: homeworks = check_response(response); if not homeworks   *)
(***************************************************************************)
CheckResponse ==
    /\ pc = "check_response"
    /\ LET r == check_response(response)
       IN  IF r.exc # NoError
           THEN /\ pc' = "except"
                /\ error' = r.exc
                /\ raisedBy' = "check_response"
                /\ UNCHANGED homeworks
           ELSE /\ homeworks' = r.ret
                /\ pc' = IF r.ret = <<>> THEN "finally" ELSE "parse_status"
                /\ UNCHANGED <<error, raisedBy>>
    /\ UNCHANGED <<tokens, current_timestamp, last_message, response,
                   message, propagating, cycle, start_timestamp,
                   start_message, verdict, sends, slept, confirmed, prev>>

\* The cursor taken from the response before the first item is interpreted.
ParseStatus_AdvanceFirst ==
    /\ pc = "parse_status"
    /\ current_timestamp' =
         response_get_current_date(response, current_timestamp)
    /\ LET homework == homeworks[1]
           r == parse_status(homework)
       IN  IF r.exc # NoError
           THEN /\ pc' = "except"
                /\ error' = r.exc
                /\ raisedBy' = "parse_status"
                /\ UNCHANGED <<message, verdict>>
           ELSE /\ pc' = "notify"
                /\ message' = r.ret
                /\ verdict' = r.ret
                /\ UNCHANGED <<error, raisedBy>>
    /\ UNCHANGED <<tokens, last_message, response,
                   homeworks, propagating, cycle, start_timestamp,
                   start_message, sends, slept, confirmed, prev>>

(***************************************************************************)
(* Lines 174-175: message = parse_status(homeworks[0])                     *)
(***************************************************************************)
ParseStatus ==
    /\ pc = "parse_status"
    /\ LET homework == first_item(homeworks)
           r == parse_status(homework)
       IN  IF r.exc # NoError
           THEN /\ pc' = "except"
                /\ error' = r.exc
                /\ raisedBy' = "parse_status"
                /\ UNCHANGED <<message, verdict>>
           ELSE /\ pc' = "notify"
                /\ message' = r.ret
                /\ verdict' = r.ret
                /\ UNCHANGED <<error, raisedBy>>
    /\ UNCHANGED <<tokens, current_timestamp, last_message, response,
                   homeworks, propagating, cycle, start_timestamp,
                   start_message, sends, slept, confirmed, prev>>

(***************************************************************************)
(* Lines 176-181: if message != last_message and send_message(...)         *)
(***************************************************************************)
Notify ==
    /\ pc = "notify"
    /\ IF ~differs(message, last_message)
       THEN /\ pc' = "finally"
            /\ UNCHANGED <<last_message, current_timestamp, error, raisedBy,
                           sends, confirmed>>
       ELSE \E outcome \in BotOutcomes :
              LET sent == send_message(outcome)
              IN  /\ sends' = Append(sends, Call(message, last_message, sent))
                  /\ last_message' =
                       assigned_last_message(sent, message, last_message)
                  /\ confirmed' = IF last_message' # last_message
                                  THEN outcome = "delivered"
                                  ELSE confirmed
                  /\ current_timestamp' =
                       IF sent = "True"
                       THEN response_get_current_date(response,
                                                      current_timestamp)
                       ELSE current_timestamp
                  /\ IF sent = "raise"
                     THEN /\ pc' = "except"
                          /\ error' = SendError
                          /\ raisedBy' = "send_message"
                     ELSE /\ pc' = "finally"
                          /\ UNCHANGED <<error, raisedBy>>
    /\ UNCHANGED <<tokens, response, homeworks, message, propagating, cycle,
                   start_timestamp, start_message, verdict, slept, prev>>

(***************************************************************************)
(* Lines 183-187: except Exception as error; the name error is unbound     *)
(* when the block is left.                                                 *)
(***************************************************************************)
Except ==
    /\ pc = "except"
    /\ message' = Diagnostic(error)
    /\ IF ~differs(message', last_message)
       THEN /\ pc' = leave_except(FALSE)
            /\ UNCHANGED <<last_message, propagating, sends, confirmed>>
       ELSE \E outcome \in BotOutcomes :
              LET sent == send_message(outcome)
              IN  /\ sends' = Append(sends,
                                     Call(message', last_message, sent))
                  /\ last_message' =
                       assigned_last_message(sent, message', last_message)
                  /\ confirmed' = IF last_message' # last_message
                                  THEN outcome = "delivered"
                                  ELSE confirmed
                  /\ propagating' = (sent = "raise")
                  /\ pc' = leave_except(sent = "raise")
    /\ error' = NoError
    /\ UNCHANGED <<tokens, current_timestamp, response, homeworks,
                   cycle, start_timestamp, start_message, raisedBy, verdict,
                   slept, prev>>

(***************************************************************************)
(* Lines 189-190: finally: time.sleep(RETRY_PERIOD); then the next cycle,  *)
(* or the exception of the except block leaves main().                     *)
(***************************************************************************)
Finally ==
    /\ pc = "finally"
    /\ slept' = slept + RETRY_PERIOD
    /\ pc' = IF propagating THEN "raised" ELSE "get_api_answer"
    /\ prev' = [verdict |-> verdict, sends |-> sends]
    /\ UNCHANGED <<tokens, current_timestamp, last_message, locals, cycle,
                   start_timestamp, start_message, raisedBy, verdict, sends,
                   confirmed>>

Next ==
    \/ Start
    \/ GetApiAnswer
    \/ CheckResponse
    \/ ParseStatus
    \/ Notify
    \/ Except
    \/ Finally

Spec == Init /\ [][Next]_vars

(***************************************************************************)
(* Properties of the poll loop.                                            *)
(***************************************************************************)
\* The calls of the try block whose exceptions the loop is to recover from.
FetchCalls == {"get_api_answer", "check_response", "parse_status"}

\* The cycle is over but for the sleep.
CycleEnd == pc = "finally"

Delivered(calls, text) ==
    \E i \in DOMAIN calls : calls[i].text = text /\ calls[i].result = "True"

\* C1: at the end of every cycle last_message has changed to a text m if and
\* only if send_message was called with m in that cycle and returned True,
\* and in every other cycle it is what it was when the cycle started; so
\* last_message is always '' or a text that was delivered.
C1_LastMessageIffDelivered ==
    /\ confirmed
    /\ CycleEnd =>
         /\ \A i \in DOMAIN sends :
              sends[i].result = "True" => last_message = sends[i].text
         /\ last_message # start_message => Delivered(sends, last_message)
         /\ ~(\E i \in DOMAIN sends : sends[i].result = "True")
              => last_message = start_message

\* C1 witness: a cycle replaced one delivered text by another.
C1_Witness ==
    /\ CycleEnd
    /\ start_message # <<>>
    /\ last_message # start_message
    /\ Delivered(sends, last_message)

\* C2: send_message never raises, whatever bot.send_message does, and the
\* loop is not left because of a failed delivery.
C2_DeliveryFailureNeverAborts ==
    /\ \A i \in DOMAIN sends : sends[i].result \in {"True", "False"}
    /\ pc # "raised"

\* C3: the loop is never exited: an exception of get_api_answer,
\* check_response or parse_status becomes a diagnostic message in its cycle
\* and nothing propagates out of main().
C3_LoopNeverExited ==
    /\ pc # "raised"
    /\ (CycleEnd /\ raisedBy \in FetchCalls) =>
         /\ Len(message) > 0
         /\ Head(message) = "Program failure: "
         /\ ~propagating

\* C4 as stated: two consecutive cycles with the identical verdict make at
\* most one call of send_message between them.
C4_SameVerdictAtMostOneSend ==
    (CycleEnd /\ cycle >= 2 /\ verdict # <<>> /\ prev.verdict = verdict)
        => Len(prev.sends) + Len(sends) <= 1

\* C4 amended: two consecutive cycles with the identical verdict, the first
\* of which had no failed send, make at most one call of send_message
\* between them, and the second cycle makes none.
C4_SameVerdictSuppressedAfterDelivery ==
    (/\ CycleEnd /\ cycle >= 2 /\ verdict # <<>> /\ prev.verdict = verdict
     /\ \A i \in DOMAIN prev.sends : prev.sends[i].result = "True")
        => /\ Len(prev.sends) + Len(sends) <= 1
           /\ sends = <<>>

\* C4 witness: the verdict was delivered in the first cycle and produced
\* again in the second.
C4_Witness ==
    /\ CycleEnd /\ cycle >= 2 /\ verdict # <<>> /\ prev.verdict = verdict
    /\ Len(prev.sends) = 1
    /\ prev.sends[1].result = "True"
    /\ sends = <<>>

\* C5: the cursor differs from its value at the start of the cycle only if
\* get_api_answer and check_response both returned in this cycle, and then
\* it is the current_date of this cycle's response; without a current_date
\* the cursor is unchanged.
C5_CursorOnlyFromValidatedResponse ==
    (cycle >= 1 /\ current_timestamp # start_timestamp)
        => /\ raisedBy \notin {"get_api_answer", "check_response"}
           /\ pc # "check_response"
           /\ check_response(response).exc = NoError
           /\ response.hasDate
           /\ current_timestamp = response.current_date

\* C5 witness: a cycle moved a cursor that an earlier cycle had moved.
C5_Witness ==
    /\ CycleEnd
    /\ start_timestamp \notin StartTimes
    /\ current_timestamp # start_timestamp

\* An empty, validated item list in this cycle.
EmptyCycle == CycleEnd /\ raisedBy = "none" /\ homeworks = <<>>

\* C6 as stated: after a cycle with an empty item list and a current_date,
\* the cursor is that current_date and nothing was sent.
C6_EmptyListAdvancesCursor ==
    (EmptyCycle /\ response.hasDate)
        => /\ current_timestamp = response.current_date
           /\ sends = <<>>

\* C6 amended: after a cycle with an empty item list the cursor is what it
\* was when the cycle started, with or without a current_date in the
\* response, and nothing was sent.
C6_EmptyListLeavesCursor ==
    EmptyCycle
        => /\ current_timestamp = start_timestamp
           /\ sends = <<>>

\* C6 witness: an empty item list with a current_date that is not the cursor.
C6_Witness ==
    /\ EmptyCycle
    /\ response.hasDate
    /\ response.current_date # current_timestamp

\* C7: in a cycle whose first item is valid, the verdict is sent exactly
\* when it differs from last_message; a successful send makes last_message
\* the verdict and the cursor the current_date (kept if absent); a
\* suppressed or failed send leaves last_message and the cursor unchanged.
C7_VerdictCycle ==
    (CycleEnd /\ verdict # <<>>)
        => /\ (\E i \in DOMAIN sends : sends[i].text = verdict)
                <=> (verdict # start_message)
           /\ Delivered(sends, verdict)
                => /\ last_message = verdict
                   /\ current_timestamp =
                        IF response.hasDate THEN response.current_date
                        ELSE start_timestamp
           /\ ~Delivered(sends, verdict)
                => /\ last_message = start_message
                   /\ current_timestamp = start_timestamp

\* C8: in a cycle in which get_api_answer, check_response or parse_status
\* raised, the cursor is what it was when the cycle started, during the
\* handler, after it, and at the next call of get_api_answer.
C8_FailedCycleKeepsCursor ==
    raisedBy \in FetchCalls => current_timestamp = start_timestamp

\* C8 witness: parse_status raised on a response whose current_date is not
\* the cursor, the diagnostic was delivered, and the next fetch is due.
C8_Witness ==
    /\ pc = "get_api_answer"
    /\ raisedBy = "parse_status"
    /\ response.hasDate
    /\ response.current_date # current_timestamp
    /\ Len(prev.sends) = 1
    /\ prev.sends[1].result = "True"

\* C9: send_message is never called with a text equal to last_message; in a
\* failing cycle whose diagnostic is the text last_message already held
\* when the cycle started, that text is not sent.
C9_NeverResendLastMessage ==
    /\ \A i \in DOMAIN sends : sends[i].text # sends[i].last
    /\ (CycleEnd /\ raisedBy # "none" /\ message = start_message)
         => \A i \in DOMAIN sends : sends[i].text # message

\* C9 witness: the same failure twice in a row, delivered in the first
\* cycle and suppressed in the second.
C9_Witness ==
    /\ CycleEnd /\ cycle >= 2
    /\ raisedBy \in FetchCalls
    /\ message = start_message
    /\ Delivered(prev.sends, message)
    /\ sends = <<>>

\* C10: inside a cycle nothing has been slept since its get_api_answer
\* call; when the next call is due, and when main() is left by an
\* exception, exactly one RETRY_PERIOD has been slept since that call.
C10_OneSleepPerCycle ==
    /\ pc \in {"check_response", "parse_status", "notify", "except",
               "finally"} => slept = 0
    /\ ((pc = "get_api_answer" /\ cycle >= 1) \/ pc = "raised")
         => slept = RETRY_PERIOD

\* C10 witness: the cycle failed, its handler raised, and the sleep was
\* still made.
C10_Witness ==
    /\ pc = "raised"
    /\ slept = RETRY_PERIOD

\* C11: with any of the three credentials unset or empty, main() gets no
\* further than sys.exit(1): no cycle is started, nothing is sent, nothing
\* is slept; with all three present main() does not exit at startup.
C11_MissingCredentialIsFatal ==
    LET missing == \E t \in {PRACTICUM_TOKEN, TELEGRAM_TOKEN,
                             TELEGRAM_CHAT_ID} : t \in {NoneValue, ""}
    IN  /\ missing => /\ pc \in {"main", "sys.exit(1)"}
                      /\ cycle = 0
                      /\ sends = <<>>
                      /\ slept = 0
        /\ ~missing => pc # "sys.exit(1)"

\* C11 witness: only the chat id is empty, and main() has exited.
C11_Witness ==
    /\ pc = "sys.exit(1)"
    /\ PRACTICUM_TOKEN = "token"
    /\ TELEGRAM_TOKEN = "token"
    /\ TELEGRAM_CHAT_ID = ""

\* check_response has been called on this cycle's response.
Checked ==
    /\ cycle >= 1
    /\ raisedBy # "get_api_answer"
    /\ pc # "check_response"

\* The response is a dict whose "homeworks" is a list.
WellShaped(resp) ==
    resp.isDict /\ resp.hasHomeworks /\ resp.homeworksIsList

\* C12: a cycle whose response is well shaped with an empty item list makes
\* no call of send_message, raises nothing and leaves last_message as it
\* was.
C12_EmptyListDoesNothing ==
    (Checked /\ WellShaped(response) /\ response.homeworks = <<>>)
        => /\ raisedBy = "none"
           /\ pc \in {"finally", "get_api_answer"}
           /\ ~propagating
           /\ sends = <<>>
           /\ last_message = start_message

\* C12 witness: an empty item list arrives while last_message holds a text.
C12_Witness ==
    /\ CycleEnd
    /\ Checked /\ WellShaped(response) /\ response.homeworks = <<>>
    /\ start_message # <<>>

\* C17: check_response raises exactly when the response is not a dict, has
\* no "homeworks" key, or holds something other than a list under it, and
\* then with a TypeError or KeyError; in every other case, the empty list
\* included, it returns the list under "homeworks" as it is.
C17_CheckResponseShape ==
    Checked
        => /\ (raisedBy = "check_response") <=> ~WellShaped(response)
           /\ WellShaped(response) => homeworks = response.homeworks
           /\ (pc = "except" /\ raisedBy = "check_response")
                => error.type \in {"TypeError", "KeyError"}

\* C17 witness: the list under "homeworks" is not a list and the handler is
\* about to run.
C17_Witness ==
    /\ Checked
    /\ pc = "except"
    /\ raisedBy = "check_response"
    /\ response.isDict /\ response.hasHomeworks /\ ~response.homeworksIsList

\* The text m is one this cycle has produced: its verdict or its diagnostic.
Produced(m) == verdict = m \/ (raisedBy # "none" /\ message = m)

\* C13: after a cycle in which no send succeeded, last_message is what it
\* was at each failed send, so a next cycle that produces the text m of a
\* failed send calls send_message with m again, and when that call succeeds
\* last_message is m.
C13_FailedSendIsRetried ==
    (/\ CycleEnd /\ cycle >= 2
     /\ \A i \in DOMAIN prev.sends : prev.sends[i].result # "True")
        => \A i \in DOMAIN prev.sends :
             LET m == prev.sends[i].text
             IN  /\ start_message = prev.sends[i].last
                 /\ Produced(m) => \E j \in DOMAIN sends : sends[j].text = m
                 /\ Delivered(sends, m) => last_message = m

\* C13 witness: send_message returned False for m in one cycle and True for
\* the same m in the next.
C13_Witness ==
    /\ CycleEnd /\ cycle >= 2
    /\ Len(prev.sends) = 1
    /\ prev.sends[1].result = "False"
    /\ Produced(prev.sends[1].text)
    /\ Delivered(sends, prev.sends[1].text)
    /\ last_message = prev.sends[1].text

\* parse_status has been called on the first item of this cycle's list.
Interpreted ==
    /\ Checked
    /\ WellShaped(response)
    /\ homeworks # <<>>
    /\ pc # "parse_status"

\* The item is a dict with a status that HOMEWORK_VERDICTS does not know.
Unrecognised(h) ==
    h.isDict /\ h.hasStatus /\ h.status \notin DOMAIN HOMEWORK_VERDICTS

\* The ValueError of line 140.
UnknownStatusError(h) ==
    Exc("ValueError", <<"Unknown homework status: ", h.status>>)

\* What a cycle may send when parse_status raised exc: nothing in verdict
\* format, only the diagnostic of exc, and only if it is not last_message.
OnlyDiagnosticOf(exc) ==
    /\ verdict = <<>>
    /\ \A i \in DOMAIN sends :
         /\ sends[i].text = Diagnostic(exc)
         /\ sends[i].text # sends[i].last

\* C14 as stated: for every first item with an unrecognised status
\* parse_status raises the unknown-status error, and the cycle sends at most
\* the diagnostic of that error.
C14_UnknownStatusAlwaysUnknownError ==
    (Interpreted /\ Unrecognised(homeworks[1]))
        => /\ raisedBy = "parse_status"
           /\ pc = "except" => error = UnknownStatusError(homeworks[1])
           /\ OnlyDiagnosticOf(UnknownStatusError(homeworks[1]))

\* C14 amended: for every first item with a name and an unrecognised status
\* parse_status raises the unknown-status error and the cycle sends at most
\* the diagnostic of that error; for an unrecognised status without a name
\* parse_status raises too and the cycle sends nothing in verdict format.
C14_UnknownStatusWithName ==
    (Interpreted /\ Unrecognised(homeworks[1]))
        => /\ raisedBy = "parse_status"
           /\ verdict = <<>>
           /\ \A i \in DOMAIN sends : Head(sends[i].text) = "Program failure: "
           /\ homeworks[1].hasName
                => /\ pc = "except"
                        => error = UnknownStatusError(homeworks[1])
                   /\ OnlyDiagnosticOf(UnknownStatusError(homeworks[1]))

\* C14 witness: the diagnostic of the unknown status was delivered.
C14_Witness ==
    /\ CycleEnd
    /\ Interpreted /\ Unrecognised(homeworks[1]) /\ homeworks[1].hasName
    /\ Len(sends) = 1
    /\ sends[1].result = "True"
    /\ last_message = Diagnostic(UnknownStatusError(homeworks[1]))

\* C15: get_api_answer ends in one of three ways: a ConnectionError for a
\* transport failure, an InvalidResponseCodeError, which is a class of
\* exceptions.py, with the code, the reason and the body for a status other
\* than 200, or the parsed body; it makes one request per call.
C15_ThreeOutcomes ==
    (pc = "except" /\ raisedBy = "get_api_answer")
        => /\ error.type \in {"ConnectionError", "InvalidResponseCodeError"}
           /\ error.type \in ImportedExceptions
                => /\ error.type \in ExceptionsModule
                   /\ Len(error.text) = 6

\* The responses that agree with resp on the first item and on current_date.
SameFirstItem(resp) ==
    {other \in Responses :
        /\ WellShaped(other)
        /\ other.homeworks # <<>>
        /\ other.homeworks[1] = resp.homeworks[1]
        /\ other.hasDate = resp.hasDate
        /\ other.current_date = resp.current_date}

\* What the n-th call of send_message of this cycle did.
Sent(n) == IF n <= Len(sends) THEN sends[n].result ELSE "True"

\* C16: at the end of a cycle with a non-empty item list, every response
\* with the same first item and the same current_date, whatever its other
\* items, leads from the same last_message and cursor, with send_message
\* doing the same, to the calls, the last_message and the cursor of this
\* cycle.
C16_OnlyFirstItemCounts ==
    (CycleEnd /\ Checked /\ WellShaped(response) /\ response.homeworks # <<>>)
        => \A other \in SameFirstItem(response) :
             main_cycle(other, start_message, start_timestamp,
                        Sent(1), Sent(2))
               = Outcome(sends, last_message, current_timestamp)

\* C16 witness: the verdict of the first item was delivered and the cursor
\* moved although the second item is malformed.
C16_Witness ==
    /\ CycleEnd /\ Checked /\ WellShaped(response)
    /\ Len(response.homeworks) >= 2
    /\ ~response.homeworks[2].isDict
    /\ Delivered(sends, verdict)
    /\ current_timestamp # start_timestamp

\* C18: parse_status raises a KeyError for a dict without "status" or
\* without "homework_name"; for a dict with both and a status of
\* HOMEWORK_VERDICTS it returns the text made of the name and of the phrase
\* of the status, the same text for the same name and status.
C18_ParseStatus ==
    (Interpreted /\ homeworks[1].isDict)
        => LET h == homeworks[1]
           IN  /\ (~h.hasStatus \/ ~h.hasName)
                    => /\ raisedBy = "parse_status"
                       /\ verdict = <<>>
                       /\ pc = "except" => error.type = "KeyError"
               /\ (/\ h.hasStatus /\ h.hasName
                   /\ h.status \in DOMAIN HOMEWORK_VERDICTS)
                    => /\ raisedBy # "parse_status"
                       /\ verdict = <<"Homework status changed: ",
                                      h.homework_name, ". ",
                                      HOMEWORK_VERDICTS[h.status]>>

\* C18 witness: the verdict of a rejected homework.
C18_Witness ==
    /\ Interpreted
    /\ pc = "notify"
    /\ homeworks[1].isDict /\ homeworks[1].hasStatus /\ homeworks[1].hasName
    /\ homeworks[1].status = "rejected"
    /\ verdict = <<"Homework status changed: ", "hw1", ". ",
                   "Work checked: the reviewer has remarks.">>

\* C19: a cycle calls send_message at most once, never for a verdict and
\* then for a diagnostic.
C19_AtMostOneSendPerCycle == Len(sends) <= 1

\* The text is a diagnostic of line 184.
IsDiagnostic(text) == Len(text) > 0 /\ Head(text) = "Program failure: "

\* The previous cycle delivered a diagnostic while last_message was text.
DiagnosticDeliveredOver(text) ==
    \E i \in DOMAIN prev.sends :
        /\ prev.sends[i].last = text
        /\ prev.sends[i].result = "True"
        /\ IsDiagnostic(prev.sends[i].text)

\* C20: when a cycle yields the verdict V that last_message held before the
\* previous cycle delivered a diagnostic over it, send_message is called
\* with V again, and when that call succeeds last_message is V and the
\* cursor is taken from the response again.
C20_VerdictRepeatedAfterDiagnostic ==
    (/\ CycleEnd /\ cycle >= 2 /\ verdict # <<>>
     /\ DiagnosticDeliveredOver(verdict))
        => /\ Len(sends) >= 1
           /\ sends[1].text = verdict
           /\ sends[1].result = "True"
                => /\ last_message = verdict
                   /\ current_timestamp =
                        IF response.hasDate THEN response.current_date
                        ELSE start_timestamp

\* C20 witness: V was delivered, then a diagnostic, then V again, and the
\* cursor moved again.
C20_Witness ==
    /\ CycleEnd /\ cycle >= 3 /\ verdict # <<>>
    /\ DiagnosticDeliveredOver(verdict)
    /\ Delivered(sends, verdict)
    /\ last_message = verdict
    /\ current_timestamp # start_timestamp

====
